---- MODULE Spec2Model ----
(***************************************************************************)
(* TimeLock Vault: a model of server/server.py.                            *)
(*                                                                         *)
(* The state is the vault table (sqlite), the process-wide SECRET, the     *)
(* wall clock, the artifacts handed to clients, and the request/response   *)
(* of the handler that ran last.  One action per HTTP handler (_encrypt,   *)
(* _decrypt); each handler runs to completion without suspension after     *)
(* its body is read, so a handler is one atomic step.                      *)
(*                                                                         *)
(* Cryptography is symbolic: sha256 is injective on its input (collision   *)
(* resistance, and the 32 hex digits kept are not enough for a length      *)
(* extension), AES-GCM decrypts only under the key and nonce it was        *)
(* sealed with.  Random values are drawn from small pools, so collisions   *)
(* of ids, keys and nonces do occur in the model.                          *)
(***************************************************************************)
EXTENDS Integers, Sequences, FiniteSets, TLC

VARIABLES
    SECRET,     \* server.py:36  the signing secret of this process
    vault,      \* server.py:67  table vault: id -> row
    now,        \* time.time(), in ticks of 1/TicksPerSec second
    ticks,      \* how many times the clock has advanced
    issued,     \* the payloads returned by _encrypt (held by clients), each
                \* with the body and filename of the request that made it
    last,       \* the request being answered, with its response
    kept,       \* a decrypt of an artifact that returned plaintext, kept to
                \* compare a later decrypt of it with (SpecTwice only)
    pending     \* the requests whose handler has not returned yet, each with
                \* the handler's position and local values (SpecConc only)

vars == <<SECRET, vault, now, ticks, issued, last, kept, pending>>

-----------------------------------------------------------------------------
(* Bounds of the model *)

TicksPerSec == 2        \* clock resolution: ticks per second
StartSec    == 1000     \* the clock value at start, in seconds
MaxTicks    == 2        \* how many times the clock advances
MaxRecords  == 2        \* encrypt requests are made while the vault is smaller
MaxTamper   == 1        \* how many fields of an artifact a client alters
MaxInflight == 2        \* how many handlers run at the same time (SpecConc)

-----------------------------------------------------------------------------
(* JSON values of a payload.  A str is a sequence of characters; the two      *)
(* kinds of str the server itself writes are kept symbolic: hex (32 hex       *)
(* digits of a sha256) and b64 (the base64 text of some bytes, possibly with  *)
(* characters outside the base64 alphabet inserted).                          *)

JAbsent      == [jt |-> "absent"]
JInt(n)      == [jt |-> "int", int |-> n]
JStr(s)      == [jt |-> "str", str |-> s]
JHex(pre)    == [jt |-> "hex", pre |-> pre]
JB64(b, j)   == [jt |-> "b64", blk |-> b, junk |-> j]

\* Python truthiness, as all([...]) at server.py:236 reads it
Truthy(v) ==
    CASE v.jt = "absent" -> FALSE
      [] v.jt = "int"    -> v.int # 0
      [] v.jt = "str"    -> Len(v.str) > 0
      [] OTHER           -> TRUE

Digit(d) == <<"0", "1", "2", "3", "4", "5", "6", "7", "8", "9">>[d + 1]

RECURSIVE FmtNat(_)
FmtNat(n) == IF n < 10 THEN <<Digit(n)>> ELSE FmtNat(n \div 10) \o <<Digit(n % 10)>>

\* str(int)
FmtInt(n) == IF n < 0 THEN <<"-">> \o FmtNat(-n) ELSE FmtNat(n)

\* f"{v}" of a JSON value; the digest and base64 texts are rendered as one
\* symbolic character each
FmtValue(v) ==
    CASE v.jt = "absent" -> <<"N", "o", "n", "e">>
      [] v.jt = "int"    -> FmtInt(v.int)
      [] v.jt = "str"    -> v.str
      [] OTHER           -> <<"?">>

\* the mutant of sign: the message without the separator and the id
SignNoId(secret, payload) ==
    JHex(secret \o FmtValue(payload.unlock_at))

\* server.py:88  sign(payload) under a given secret
SignWith(secret, payload) ==
    JHex(secret \o FmtValue(payload.id) \o <<":">> \o FmtValue(payload.unlock_at))

\* hashlib.sha256(SECRET.encode() + msg).hexdigest()[:32], under SECRET
sign(payload) == SignWith(SECRET, payload)

-----------------------------------------------------------------------------
(* Bytes: random bytes are [raw |-> name]; AES-GCM output is a sealed box.  *)

Raw(name) == [raw |-> name]

\* AESGCM(key).encrypt(nonce, raw, None)
AESGCM_encrypt(key, nonce, pt) == [aead |-> key, nonce |-> nonce, pt |-> pt]

\* AESGCM(key).decrypt(nonce, ct, None): InvalidTag unless sealed with both
AESGCM_decrypt(key, nonce, ct) ==
    IF "aead" \in DOMAIN ct /\ ct.aead = key /\ ct.nonce = nonce
    THEN [ok |-> TRUE, pt |-> ct.pt]
    ELSE [ok |-> FALSE]

\* base64.b64encode(b).decode()
b64encode(b) == JB64(b, 0)

\* base64.b64decode(s): characters outside the alphabet are discarded before
\* decoding; a str that is no base64 raises binascii.Error, a non-str raises
\* TypeError; 32 hex digits are valid base64 of 24 other bytes
b64decode(v) ==
    CASE v.jt = "b64" -> [ok |-> TRUE, bytes |-> v.blk]
      [] v.jt = "hex" -> [ok |-> TRUE, bytes |-> [garbage |-> v.pre]]
      [] OTHER        -> [ok |-> FALSE]

-----------------------------------------------------------------------------
(* Configuration and the duration table *)

MAX_BYTES == 104857600      \* int(os.environ.get("MAX_MB", "100")) * 1024 * 1024

Upper == <<"A","B","C","D","E","F","G","H","I","J","K","L","M",
           "N","O","P","Q","R","S","T","U","V","W","X","Y","Z">>
LowerOf == <<"a","b","c","d","e","f","g","h","i","j","k","l","m",
             "n","o","p","q","r","s","t","u","v","w","x","y","z">>

\* the mutant of lower: the token is looked up as written
lower_AsWritten(s) == s

\* str.lower()
lower(s) ==
    [i \in 1..Len(s) |->
        IF \E k \in 1..26 : Upper[k] = s[i]
        THEN LowerOf[CHOOSE k \in 1..26 : Upper[k] = s[i]]
        ELSE s[i]]

DURATIONS ==
    { << <<"1","h">>,                          3600 >>,
      << <<"2","h">>,                          7200 >>,
      << <<"6","h">>,                         21600 >>,
      << <<"1","2","h">>,                     43200 >>,
      << <<"1","d">>,                         86400 >>,
      << <<"1","d","a","y">>,                 86400 >>,
      << <<"3","d">>,                        259200 >>,
      << <<"3","d","a","y","s">>,            259200 >>,
      << <<"1","w","e","e","k">>,            604800 >>,
      << <<"2","w","e","e","k","s">>,       1209600 >>,
      << <<"1","m","o","n","t","h">>,       2592000 >>,
      << <<"3","m","o","n","t","h","s">>,   7776000 >>,
      << <<"6","m","o","n","t","h","s">>,  15552000 >>,
      << <<"1","y","e","a","r">>,          31536000 >> }

\* token in DURATIONS
InDurations(token) == \E e \in DURATIONS : e[1] = token

\* DURATIONS[token]
DurationSecs(token) == (CHOOSE e \in DURATIONS : e[1] = token)[2]

\* str.encode("latin-1") succeeds: every character is below U+0100.  The one
\* character above it that the model uses is written "U+0444".
NonLatin1 == {"U+0444"}
Latin1Encodable(s) == \A i \in 1..Len(s) : s[i] \notin NonLatin1

-----------------------------------------------------------------------------
(* Helpers *)

RECURSIVE Join(_)
\* " ".join(parts)
Join(parts) ==
    IF Len(parts) = 0 THEN <<>>
    ELSE IF Len(parts) = 1 THEN parts[1]
    ELSE parts[1] \o <<" ">> \o Join(Tail(parts))

\* server.py:79  fmt_countdown(s), s already truncated to an int
fmt_countdown(s) ==
    LET d   == IF s \div 86400 # 0
               THEN << FmtInt(s \div 86400) \o <<"d">> >> ELSE <<>>
        h   == IF (s % 86400) \div 3600 # 0
               THEN << FmtInt((s % 86400) \div 3600) \o <<"h">> >> ELSE <<>>
        m   == IF (s % 3600) \div 60 # 0
               THEN << FmtInt((s % 3600) \div 60) \o <<"m">> >> ELSE <<>>
        dhm == d \o h \o m
        sec == IF s % 60 # 0 \/ Len(dhm) = 0
               THEN << FmtInt(s % 60) \o <<"s">> >> ELSE <<>>
    IN  Join(dhm \o sec)

\* int(time.time()): whole seconds of the clock
IntTime(t) == t \div TicksPerSec

\* datetime.fromtimestamp(t, tz=timezone.utc).isoformat(), kept symbolic
isoformat(t) == [iso |-> t]

-----------------------------------------------------------------------------
(* The input sets of the model *)

ServerSecret == <<"s","3","c","r","3","t">>     \* the SECRET of this process
WrongSecret  == <<"g","u","e","s","s">>         \* a secret a client made up

Ids     == { <<"7">>, <<"k">> }          \* secrets.token_urlsafe(16)
KeyPool   == << Raw("k1"), Raw("k2") >>  \* secrets.token_bytes(32)
NoncePool == << Raw("n1"), Raw("n2") >>  \* secrets.token_bytes(12)

\* a random draw from a pool: a value drawn before (a collision) or the next
\* value never drawn; the values never drawn are interchangeable
Draw(pool, used) ==
    { pool[i] : i \in { i \in 1..Len(pool) : \A j \in 1..(i - 1) : pool[j] \in used } }

Empty    == [len |-> 0, data |-> "none"]
P1       == [len |-> 13, data |-> "hello, vault!"]
P2       == [len |-> MAX_BYTES, data |-> "full size"]
TooBig   == [len |-> MAX_BYTES + 1, data |-> "over size"]
Bodies   == {Empty, P1, P2, TooBig}

DurationInputs == { <<"1","h">>, <<"1","H">>, <<"b","o","g","u","s">> }
Filenames      == { <<"f">>, <<"U+0444">> }

-----------------------------------------------------------------------------
(* _decrypt, server.py:220-272, as a function of the request body, the      *)
(* clock value it reads and the vault table.  The response records the      *)
(* steps the handler entered and how many times it read the table.          *)

JsonError(code, err, steps) ==
    [kind |-> "Error", status |-> code, error |-> err, steps |-> steps, reads |-> 0]

\* an exception no handler catches: the framework answers 500
Unhandled(exc, steps, reads) ==
    [kind |-> "Error", status |-> 500, error |-> "Internal Server Error",
     exc |-> exc, steps |-> steps, reads |-> reads]

\* the mutant of TimeGateLocked: the gate is still closed at unlock_at itself
TimeGateLate(t, unlock_at) == t <= unlock_at * TicksPerSec

\* server.py:243  now < unlock_at, for an int unlock_at
TimeGateLocked(t, unlock_at) == t < unlock_at * TicksPerSec

\* the mutant of LockedResponse: the remaining time is rounded up
LockedResponse_RoundUp(t, unlock_at) ==
    LET remaining == unlock_at * TicksPerSec - t
        secs      == (remaining + TicksPerSec - 1) \div TicksPerSec
    IN  [kind |-> "Locked", status |-> 423,
         unlock_at |-> unlock_at, unlock_iso |-> isoformat(unlock_at),
         remaining_seconds |-> secs, remaining_human |-> fmt_countdown(secs),
         message |-> fmt_countdown(secs),
         steps |-> <<"Parse", "Authenticate", "TimeGate">>, reads |-> 0]

\* server.py:244-253  the 423 response
LockedResponse(t, unlock_at) ==
    LET remaining == unlock_at * TicksPerSec - t       \* in ticks
        secs      == remaining \div TicksPerSec        \* int(remaining)
    IN  [kind |-> "Locked", status |-> 423,
         unlock_at |-> unlock_at, unlock_iso |-> isoformat(unlock_at),
         remaining_seconds |-> secs, remaining_human |-> fmt_countdown(secs),
         message |-> fmt_countdown(secs),
         steps |-> <<"Parse", "Authenticate", "TimeGate">>, reads |-> 0]

\* the value sqlite compares the TEXT column id with: an int parameter takes
\* the column's TEXT affinity
SqlText(v) == FmtValue(v)

\* server.py:261-272  the decryption and the 200 response
DecryptStep(p, row) ==
    LET steps == <<"Parse", "Authenticate", "TimeGate", "Lookup", "Decrypt">>
        n     == b64decode(p.nonce)
        c     == b64decode(p.ct)
        r     == IF n.ok /\ c.ok
                 THEN AESGCM_decrypt(row.aes_key, n.bytes, c.bytes)
                 ELSE [ok |-> FALSE]
        name  == IF p.original.jt = "absent"
                 THEN <<"d","e","c","r","y","p","t","e","d","_","f","i","l","e">>
                 ELSE FmtValue(p.original)
    IN  IF ~r.ok
        THEN [kind |-> "Error", status |-> 500, error |-> "Decryption failed",
              steps |-> steps, reads |-> 1]
        ELSE IF ~Latin1Encodable(name)
        THEN Unhandled("UnicodeEncodeError", steps, 1)
        ELSE [kind |-> "Plaintext", status |-> 200, content |-> r.pt,
              filename |-> name, steps |-> steps, reads |-> 1]

\* the mutant of DecryptObject: the table is read before the signature check
DecryptObject_LookupFirst(p, t, tbl) ==
    IF ~(Truthy(p.id) /\ Truthy(p.unlock_at) /\ Truthy(p.nonce) /\ Truthy(p.ct))
    THEN JsonError(400, "Malformed", <<"Parse">>)
    ELSE IF SqlText(p.id) \notin DOMAIN tbl
    THEN [kind |-> "Error", status |-> 404, error |-> "Key not found",
          steps |-> <<"Parse", "Lookup">>, reads |-> 1]
    ELSE IF p.sig # sign(p)
    THEN [kind |-> "Error", status |-> 403, error |-> "Integrity check failed",
          steps |-> <<"Parse", "Lookup", "Authenticate">>, reads |-> 1]
    ELSE IF p.unlock_at.jt # "int"
    THEN Unhandled("TypeError", <<"Parse", "Lookup", "Authenticate", "TimeGate">>, 1)
    ELSE IF TimeGateLocked(t, p.unlock_at.int)
    THEN LockedResponse(t, p.unlock_at.int)
    ELSE DecryptStep(p, tbl[SqlText(p.id)])

\* the mutant of DecryptObject: the table is read before the clock
DecryptObject_GateAfterLookup(p, t, tbl) ==
    IF ~(Truthy(p.id) /\ Truthy(p.unlock_at) /\ Truthy(p.nonce) /\ Truthy(p.ct))
    THEN JsonError(400, "Malformed", <<"Parse">>)
    ELSE IF p.sig # sign(p)
    THEN [kind |-> "Error", status |-> 403, error |-> "Integrity check failed",
          steps |-> <<"Parse", "Authenticate">>, reads |-> 0]
    ELSE IF SqlText(p.id) \notin DOMAIN tbl
    THEN [kind |-> "Error", status |-> 404, error |-> "Key not found",
          steps |-> <<"Parse", "Authenticate", "Lookup">>, reads |-> 1]
    ELSE IF p.unlock_at.jt # "int"
    THEN Unhandled("TypeError", <<"Parse", "Authenticate", "Lookup", "TimeGate">>, 1)
    ELSE IF TimeGateLocked(t, p.unlock_at.int)
    THEN [LockedResponse(t, p.unlock_at.int) EXCEPT !.reads = 1]
    ELSE DecryptStep(p, tbl[SqlText(p.id)])

\* server.py:230-272  a body that parsed to a JSON object
DecryptObject(p, t, tbl) ==
    IF ~(Truthy(p.id) /\ Truthy(p.unlock_at) /\ Truthy(p.nonce) /\ Truthy(p.ct))
    THEN JsonError(400, "Malformed", <<"Parse">>)
    ELSE IF p.sig # sign(p)
    THEN [kind |-> "Error", status |-> 403, error |-> "Integrity check failed",
          steps |-> <<"Parse", "Authenticate">>, reads |-> 0]
    ELSE IF p.unlock_at.jt # "int"
    THEN Unhandled("TypeError", <<"Parse", "Authenticate", "TimeGate">>, 0)
    ELSE IF TimeGateLocked(t, p.unlock_at.int)
    THEN LockedResponse(t, p.unlock_at.int)
    ELSE IF SqlText(p.id) \notin DOMAIN tbl
    THEN [kind |-> "Error", status |-> 404, error |-> "Key not found",
          steps |-> <<"Parse", "Authenticate", "TimeGate", "Lookup">>, reads |-> 1]
    ELSE DecryptStep(p, tbl[SqlText(p.id)])

\* server.py:220-228  the body as received
DecryptResponse(body, t, tbl) ==
    CASE body.kind = "empty"     -> JsonError(400, "No .tlp data", <<>>)
      [] body.kind = "notjson"   -> JsonError(400, "Invalid .tlp file", <<"Parse">>)
      [] body.kind = "nonobject" -> Unhandled("AttributeError", <<"Parse">>, 0)
      [] OTHER                   -> DecryptObject(body.payload, t, tbl)

\* the outcome of a decrypt response, in the words of the specification
Outcome(resp) ==
    CASE resp.kind = "Plaintext"                    -> "Plaintext"
      [] resp.kind = "Locked"                       -> "Locked"
      [] resp.status = 400                          -> "Malformed"
      [] resp.status = 403                          -> "IntegrityFailure"
      [] resp.status = 404                          -> "KeyNotFound"
      [] resp.error = "Decryption failed"           -> "DecryptionFailed"
      [] OTHER                                      -> "ServerError"

-----------------------------------------------------------------------------
(* What a client can submit to /de: an artifact it was issued, with up to   *)
(* MaxTamper fields replaced, or one it made up under a secret of its own   *)

Fields == {"id", "unlock_at", "original", "nonce", "ct", "sig"}

\* a payload a client builds without the server: signed under WrongSecret,
\* sealed under a key of its own, for an id the vault never held
ForgedArtifact ==
    LET p == [v |-> JInt(1), id |-> JStr(<<"x">>),
              unlock_at |-> JInt(StartSec), unlock_iso |-> JStr(<<"i","s","o">>),
              original |-> JStr(<<"g">>),
              nonce |-> b64encode(Raw("nx")),
              ct |-> b64encode(AESGCM_encrypt(Raw("kx"), Raw("nx"), P2)),
              sig |-> JAbsent]
    IN  [p EXCEPT !.sig = SignWith(WrongSecret, p)]

Resign == JStr(<<"r","e","s","i","g","n">>)

\* the values a client may put in field f of artifact a
Alternatives(f, a) ==
    CASE f = "id" ->
            {JStr(<<"x">>), JStr(<<>>), JInt(7)} \cup {b.art.id : b \in issued}
      [] f = "unlock_at" ->
            {JInt(0), JInt(StartSec), JStr(FmtValue(a.unlock_at))}
                \cup {b.art.unlock_at : b \in issued}
      [] f = "original" ->
            {JAbsent, JStr(<<"g">>), JStr(<<"U+0444">>)}
      [] f = "nonce" ->
            {JB64(a.nonce.blk, 1), b64encode(Raw("nx")), JStr(<<>>)}
                \cup {b.art.nonce : b \in issued}
      [] f = "ct" ->
            {JB64(a.ct.blk, 1), JStr(<<>>), JInt(5),
             b64encode(AESGCM_encrypt(Raw("kx"), a.nonce.blk, P2))}
                \cup {b.art.ct : b \in issued}
      [] OTHER ->
            {JAbsent, Resign} \cup {b.art.sig : b \in issued}

RECURSIVE Tampered(_, _)
\* a with at most n fields replaced
Tampered(a, n) ==
    IF n = 0 THEN {a}
    ELSE LET less == Tampered(a, n - 1)
         IN  less \cup UNION { { [p EXCEPT ![f] = x] : x \in Alternatives(f, a) } :
                                  p \in less, f \in Fields }

\* the client signs what it altered under its own secret
Finish(p) == IF p.sig = Resign THEN [p EXCEPT !.sig = SignWith(WrongSecret, p)] ELSE p

\* the payloads clients hold
Artifacts == {b.art : b \in issued}

\* what clients submit: the artifacts they were issued, with up to MaxTamper
\* fields replaced, and the artifact made up without the server
Submitted ==
    { Finish(p) : p \in UNION { Tampered(a, MaxTamper) : a \in Artifacts } }
        \cup {ForgedArtifact}

DecryptBodies ==
    { [kind |-> "empty"], [kind |-> "notjson"], [kind |-> "nonobject"] }
        \cup { [kind |-> "object", payload |-> p] : p \in Submitted }

-----------------------------------------------------------------------------
(* The state machine *)

Idle == [op |-> "none"]
None == [none |-> TRUE]

\* the handlers that can run at the same time, and a handler that is not running
Slots == 1..MaxInflight
FreeSlot == [pc |-> "free"]

Init ==
    /\ SECRET = ServerSecret
    /\ vault = << >>
    /\ now = StartSec * TicksPerSec
    /\ ticks = 0
    /\ issued = {}
    /\ last = Idle
    /\ kept = None
    /\ pending = [s \in Slots |-> FreeSlot]

\* the clock advances by one tick, or to one tick before the hour is over
TickSteps == {1, 3600 * TicksPerSec - 1}

Tick ==
    /\ last = Idle
    /\ ticks < MaxTicks
    /\ \E step \in TickSteps : now' = now + step
    /\ ticks' = ticks + 1
    /\ UNCHANGED <<SECRET, vault, issued, last, kept, pending>>

\* the mutant of InsertRow: INSERT OR REPLACE
InsertRow_Replace(tbl, key_id, row) ==
    [ok |-> TRUE,
     tbl |-> [k \in DOMAIN tbl \cup {key_id} |-> IF k = key_id THEN row ELSE tbl[k]]]

\* the mutant of InsertRow: INSERT OR IGNORE
InsertRow_Ignore(tbl, key_id, row) ==
    IF key_id \in DOMAIN tbl
    THEN [ok |-> TRUE, tbl |-> tbl]
    ELSE [ok |-> TRUE,
          tbl |-> [k \in DOMAIN tbl \cup {key_id} |-> IF k = key_id THEN row ELSE tbl[k]]]

\* server.py:192-195 with the PRIMARY KEY of server.py:68: the INSERT raises
\* IntegrityError on an id the table holds, and the transaction is rolled back
InsertRow(tbl, key_id, row) ==
    IF key_id \in DOMAIN tbl
    THEN [ok |-> FALSE, tbl |-> tbl]
    ELSE [ok |-> TRUE,
          tbl |-> [k \in DOMAIN tbl \cup {key_id} |-> IF k = key_id THEN row ELSE tbl[k]]]

\* the mutant of MakePayload: the key is encoded where the nonce belongs
MakePayload_KeyAsNonce(key_id, unlock_at, filename, nonce, ct) ==
    LET p == [v |-> JInt(1), id |-> JStr(key_id),
              unlock_at |-> JInt(unlock_at), unlock_iso |-> JStr(<<"i","s","o">>),
              original |-> JStr(filename),
              nonce |-> b64encode(ct.aead), ct |-> b64encode(ct),
              sig |-> JAbsent]
    IN  [p EXCEPT !.sig = sign(p)]

\* the mutant of MakePayload: the signature is made over id and unlock_iso
MakePayload_SignIso(key_id, unlock_at, filename, nonce, ct) ==
    LET p == [v |-> JInt(1), id |-> JStr(key_id),
              unlock_at |-> JInt(unlock_at), unlock_iso |-> JStr(<<"i","s","o">>),
              original |-> JStr(filename),
              nonce |-> b64encode(nonce), ct |-> b64encode(ct),
              sig |-> JAbsent]
    IN  [p EXCEPT !.sig = sign([p EXCEPT !.unlock_at = p.unlock_iso])]

\* server.py:197-204  the payload of the artifact, signed
MakePayload(key_id, unlock_at, filename, nonce, ct) ==
    LET p == [v |-> JInt(1), id |-> JStr(key_id),
              unlock_at |-> JInt(unlock_at), unlock_iso |-> JStr(<<"i","s","o">>),
              original |-> JStr(filename),
              nonce |-> b64encode(nonce), ct |-> b64encode(ct),
              sig |-> JAbsent]
    IN  [p EXCEPT !.sig = sign(p)]

\* server.py:171-183  the requests _encrypt rejects before any work
EncryptRejection(raw, duration) ==
    IF raw.len = 0 THEN JsonError(400, "No file data", <<>>)
    ELSE IF raw.len > MAX_BYTES THEN JsonError(413, "File too large", <<>>)
    ELSE IF ~InDurations(lower(duration)) THEN JsonError(400, "Unknown duration", <<>>)
    ELSE [kind |-> "none"]

\* server.py:171-183  _encrypt returns an error before generating anything,
\* for a request drawn from the given bodies, durations and filenames
EncryptRejectOf(raws, durations, filenames) ==
    /\ last = Idle
    /\ \E raw \in raws, duration \in durations, filename \in filenames :
          /\ EncryptRejection(raw, duration).kind # "none"
          /\ last' = [op |-> "encrypt", at |-> now,
                      req |-> [raw |-> raw, duration |-> duration, filename |-> filename],
                      resp |-> EncryptRejection(raw, duration)]
    /\ UNCHANGED <<SECRET, vault, now, ticks, issued, kept, pending>>

EncryptReject ==
    /\ Cardinality(DOMAIN vault) < MaxRecords
    /\ EncryptRejectOf(Bodies, DurationInputs, Filenames)

\* server.py:185-215  _encrypt past its input checks.  Both reads of the
\* clock (unlock_at, created_at) fall in the same tick.
EncryptStoreOf(raws, durations, filenames) ==
    /\ last = Idle
    /\ \E raw \in raws, duration \in durations, filename \in filenames,
          key \in Draw(KeyPool, {vault[k].aes_key : k \in DOMAIN vault}),
          nonce \in Draw(NoncePool, {b.art.nonce.blk : b \in issued}),
          key_id \in Ids :
          /\ EncryptRejection(raw, duration).kind = "none"
          /\ LET secs      == DurationSecs(lower(duration))
                 unlock_at == IntTime(now) + secs
                 ct        == AESGCM_encrypt(key, nonce, raw)
                 row       == [aes_key |-> key, unlock_at |-> unlock_at,
                               created_at |-> IntTime(now), original |-> filename]
                 ins       == InsertRow(vault, key_id, row)
                 payload   == MakePayload(key_id, unlock_at, filename, nonce, ct)
                 sent      == ins.ok /\ Latin1Encodable(filename)
                 req       == [raw |-> raw, duration |-> duration, filename |-> filename]
             IN  /\ vault' = ins.tbl
                 /\ issued' = IF sent
                              THEN issued \cup {[art |-> payload, raw |-> raw,
                                                 filename |-> filename]}
                              ELSE issued
                 /\ last' = [op |-> "encrypt", at |-> now, req |-> req,
                             gen |-> [key_id |-> key_id, key |-> key, nonce |-> nonce],
                             resp |-> IF ~ins.ok
                                      THEN Unhandled("IntegrityError", <<>>, 0)
                                      ELSE IF ~Latin1Encodable(filename)
                                      THEN Unhandled("UnicodeEncodeError", <<>>, 0)
                                      ELSE [kind |-> "Artifact", status |-> 200,
                                            body |-> payload,
                                            x_unlock_at |-> FmtInt(unlock_at),
                                            x_unlock_iso |-> isoformat(unlock_at),
                                            x_duration |-> duration]]
    /\ UNCHANGED <<SECRET, now, ticks, kept, pending>>

EncryptStore ==
    /\ Cardinality(DOMAIN vault) < MaxRecords
    /\ EncryptStoreOf(Bodies, DurationInputs, Filenames)

\* the mutant of DecryptOf: the row is deleted once its key was released
DecryptOf_Burn(bodies) ==
    /\ last = Idle
    /\ \E body \in bodies :
          LET resp == DecryptResponse(body, now, vault)
          IN  /\ last' = [op |-> "decrypt", at |-> now, req |-> body, resp |-> resp]
              /\ vault' = IF resp.kind = "Plaintext"
                          THEN [k \in DOMAIN vault \ {SqlText(body.payload.id)} |-> vault[k]]
                          ELSE vault
    /\ UNCHANGED <<SECRET, now, ticks, issued, kept, pending>>

\* server.py:220-272  _decrypt answers one of the given bodies
DecryptOf(bodies) ==
    /\ last = Idle
    /\ \E body \in bodies :
          last' = [op |-> "decrypt", at |-> now, req |-> body,
                   resp |-> DecryptResponse(body, now, vault)]
    /\ UNCHANGED <<SECRET, vault, now, ticks, issued, kept, pending>>

\* a client sends any body it can build
Decrypt == kept = None /\ DecryptOf(DecryptBodies)

\* the response is sent and the handler returns
Done ==
    /\ last # Idle
    /\ last' = Idle
    /\ UNCHANGED <<SECRET, vault, now, ticks, issued, kept, pending>>

Next == Tick \/ EncryptReject \/ EncryptStore \/ Decrypt \/ Done

Spec == Init /\ [][Next]_vars

\* SpecTwice: as Spec, and one decrypt of an artifact that returned plaintext
\* is kept; from then on the client sends that artifact again, at any moment
Keep ==
    /\ kept = None
    /\ last # Idle /\ last.op = "decrypt" /\ last.resp.kind = "Plaintext"
    /\ last.req.payload \in Artifacts
    /\ kept' = [body |-> last.req, rows |-> DOMAIN vault,
                content |-> last.resp.content]
    /\ last' = Idle
    /\ UNCHANGED <<SECRET, vault, now, ticks, issued, pending>>

DecryptAgain == kept # None /\ DecryptOf({kept.body})

\* the clock advances once more after the artifact was kept
TickLater ==
    /\ kept # None
    /\ last = Idle
    /\ ticks = MaxTicks
    /\ \E step \in TickSteps : now' = now + step
    /\ ticks' = ticks + 1
    /\ UNCHANGED <<SECRET, vault, issued, last, kept, pending>>

NextTwice ==
    Tick \/ EncryptReject \/ EncryptStore \/ Decrypt \/ Done \/ Keep \/ DecryptAgain
        \/ TickLater

SpecTwice == Init /\ [][NextTwice]_vars

\* SpecDur: _encrypt is called once, on an empty vault, with one of the
\* duration tokens of DurationCases
\* duration tokens as a caller writes them, each with the seconds the
\* Duration Table is to resolve it to (hours of 3600 s, days of 86400 s, a
\* week of 7 days, a month of 30, a year of 365), or -1 for not found
DurationCases ==
    { << <<"1","h">>, 3600 >>,
      << <<"1","H">>, 3600 >>,
      << <<"2","h">>, 7200 >>,
      << <<"2","H">>, 7200 >>,
      << <<"6","h">>, 21600 >>,
      << <<"6","H">>, 21600 >>,
      << <<"1","2","h">>, 43200 >>,
      << <<"1","2","H">>, 43200 >>,
      << <<"1","d">>, 86400 >>,
      << <<"1","D">>, 86400 >>,
      << <<"1","d","a","y">>, 86400 >>,
      << <<"1","D","A","Y">>, 86400 >>,
      << <<"1","d","a","Y">>, 86400 >>,
      << <<"3","d">>, 259200 >>,
      << <<"3","D">>, 259200 >>,
      << <<"3","d","a","y","s">>, 259200 >>,
      << <<"3","D","A","Y","S">>, 259200 >>,
      << <<"3","d","a","y","S">>, 259200 >>,
      << <<"1","w","e","e","k">>, 604800 >>,
      << <<"1","W","E","E","K">>, 604800 >>,
      << <<"1","w","e","e","K">>, 604800 >>,
      << <<"2","w","e","e","k","s">>, 1209600 >>,
      << <<"2","W","E","E","K","S">>, 1209600 >>,
      << <<"2","w","e","e","k","S">>, 1209600 >>,
      << <<"1","m","o","n","t","h">>, 2592000 >>,
      << <<"1","M","O","N","T","H">>, 2592000 >>,
      << <<"1","m","o","n","t","H">>, 2592000 >>,
      << <<"3","m","o","n","t","h","s">>, 7776000 >>,
      << <<"3","M","O","N","T","H","S">>, 7776000 >>,
      << <<"3","m","o","n","t","h","S">>, 7776000 >>,
      << <<"6","m","o","n","t","h","s">>, 15552000 >>,
      << <<"6","M","O","N","T","H","S">>, 15552000 >>,
      << <<"6","m","o","n","t","h","S">>, 15552000 >>,
      << <<"1","y","e","a","r">>, 31536000 >>,
      << <<"1","Y","E","A","R">>, 31536000 >>,
      << <<"1","y","e","a","R">>, 31536000 >>,
      << <<"b","o","g","u","s">>, -1 >>,
      << <<"1">>, -1 >>,
      << <<"h">>, -1 >>,
      << <<"1","h","o","u","r">>, -1 >>,
      << <<"1"," ","h">>, -1 >>,
      << <<"2","d">>, -1 >>,
      << <<"1","m","o","n","t","h","s">>, -1 >>,
      << <<>>, -1 >> }

DurationTokens == {c[1] : c \in DurationCases}

ResolveUnknown == vault = << >> /\ EncryptRejectOf({P1}, DurationTokens, {<<"f">>})

ResolveKnown == vault = << >> /\ EncryptStoreOf({P1}, DurationTokens, {<<"f">>})

NextDur == Tick \/ ResolveUnknown \/ ResolveKnown \/ Done

SpecDur == Init /\ [][NextDur]_vars

\* SpecReset: as Spec, and the server may be started again on an empty
\* DB_PATH with the SERVER_SECRET it had (init_db creates the table anew); the
\* clients still hold the artifacts they were issued, and send them unaltered
Reset ==
    /\ last = Idle
    /\ vault # << >>
    /\ vault' = << >>
    /\ UNCHANGED <<SECRET, now, ticks, issued, last, kept, pending>>

Held == { [kind |-> "object", payload |-> p] : p \in Artifacts \cup {ForgedArtifact} }

DecryptHeld == DecryptOf(Held)

\* one body, one duration and one filename are enough here
EncryptBounded ==
    /\ Cardinality(issued) < MaxRecords
    /\ EncryptStoreOf({P1}, {<<"1","h">>}, {<<"f">>})

NextReset == Tick \/ EncryptBounded \/ Reset \/ DecryptHeld \/ Done

SpecReset == Init /\ [][NextReset]_vars

-----------------------------------------------------------------------------
(* SpecConc: up to MaxInflight handlers run at the same time.  A handler    *)
(* runs without suspension except at the accesses of the table, so the      *)
(* steps of _encrypt are: up to the INSERT, the INSERT with its commit, the *)
(* response; and those of _decrypt: up to the SELECT, the SELECT and the    *)
(* rest.  Steps of different handlers interleave in every order.            *)

InFlight(pcs) == {s \in Slots : pending[s].pc \in pcs}

\* the handler in slot s returns: its response is the one being sent
Return(s, record) ==
    /\ last' = record
    /\ pending' = [pending EXCEPT ![s] = FreeSlot]

\* a draw that repeats no value drawn before, while the pool has one: the
\* collisions of keys and nonces are left to Spec, those of ids are kept
Fresh(pool, used) ==
    LET drawn == Draw(pool, used)
    IN  IF drawn \subseteq used THEN {pool[Len(pool)]} ELSE drawn \ used

\* an hour passes, once, at any point of the interleaving
HourPasses ==
    /\ last = Idle
    /\ now < (StartSec + 3600) * TicksPerSec
    /\ now' = now + 3600 * TicksPerSec
    /\ ticks' = ticks + 1
    /\ UNCHANGED <<SECRET, vault, issued, last, kept, pending>>

\* server.py:172-190  PUT /en: _encrypt up to the INSERT.  The table as it is
\* when the handler starts is remembered, to compare its answer with
EncPrepare(s) ==
    /\ last = Idle
    /\ pending[s] = FreeSlot
    /\ Cardinality(DOMAIN vault) + Cardinality(InFlight({"insert"})) < MaxRecords
    /\ \E raw \in {Empty, P1} :
          LET req == [raw |-> raw, duration |-> <<"1","h">>, filename |-> <<"f">>]
              rej == EncryptRejection(req.raw, req.duration)
          IN  IF rej.kind # "none"
              THEN /\ last' = [op |-> "encrypt", at |-> now, req |-> req,
                               seen |-> vault, resp |-> rej]
                   /\ pending' = pending
              ELSE /\ \E key \in Fresh(KeyPool,
                                   {vault[k].aes_key : k \in DOMAIN vault} \cup
                                   {pending[x].gen.key : x \in InFlight({"insert"})}),
                         nonce \in Fresh(NoncePool,
                                   {b.art.nonce.blk : b \in issued} \cup
                                   {pending[x].gen.nonce : x \in InFlight({"insert", "respond"})}),
                         key_id \in Ids :
                         pending' = [pending EXCEPT ![s] =
                                        [pc |-> "insert", req |-> req, at |-> now,
                                         seen |-> vault,
                                         gen |-> [key_id |-> key_id, key |-> key,
                                                  nonce |-> nonce]]]
                   /\ last' = last
    /\ UNCHANGED <<SECRET, vault, now, ticks, issued, kept>>

\* server.py:192-195  the INSERT and its commit
EncInsert(s) ==
    /\ last = Idle
    /\ pending[s].pc = "insert"
    /\ LET p   == pending[s]
           row == [aes_key |-> p.gen.key,
                   unlock_at |-> IntTime(p.at) + DurationSecs(lower(p.req.duration)),
                   created_at |-> IntTime(now), original |-> p.req.filename]
           ins == InsertRow(vault, p.gen.key_id, row)
       IN  IF ~ins.ok
           THEN /\ Return(s, [op |-> "encrypt", at |-> p.at, req |-> p.req, gen |-> p.gen,
                              seen |-> p.seen,
                              resp |-> Unhandled("IntegrityError", <<>>, 0)])
                /\ vault' = vault
           ELSE /\ vault' = ins.tbl
                /\ pending' = [pending EXCEPT ![s] = [p EXCEPT !.pc = "respond"]]
                /\ last' = last
    /\ UNCHANGED <<SECRET, now, ticks, issued, kept>>

\* server.py:197-215  the payload and the response
EncRespond(s) ==
    /\ last = Idle
    /\ pending[s].pc = "respond"
    /\ LET p         == pending[s]
           unlock_at == IntTime(p.at) + DurationSecs(lower(p.req.duration))
           ct        == AESGCM_encrypt(p.gen.key, p.gen.nonce, p.req.raw)
           payload   == MakePayload(p.gen.key_id, unlock_at, p.req.filename,
                                    p.gen.nonce, ct)
           sent      == Latin1Encodable(p.req.filename)
       IN  /\ issued' = IF sent
                        THEN issued \cup {[art |-> payload, raw |-> p.req.raw,
                                           filename |-> p.req.filename]}
                        ELSE issued
           /\ Return(s, [op |-> "encrypt", at |-> p.at, req |-> p.req, gen |-> p.gen,
                         seen |-> p.seen,
                         resp |-> IF ~sent
                                  THEN Unhandled("UnicodeEncodeError", <<>>, 0)
                                  ELSE [kind |-> "Artifact", status |-> 200,
                                        body |-> payload,
                                        x_unlock_at |-> FmtInt(unlock_at),
                                        x_unlock_iso |-> isoformat(unlock_at),
                                        x_duration |-> p.req.duration]])
    /\ UNCHANGED <<SECRET, vault, now, ticks, kept>>

NoResponse == [kind |-> "none"]

\* server.py:221-253  what _decrypt answers before it reads the table, if it
\* answers there: nothing up to the time gate depends on the table
GateResponse(body, t) ==
    LET early == DecryptResponse(body, t, << >>)
    IN  IF early.reads = 0 THEN early ELSE NoResponse

\* server.py:221-253  PUT /de with an artifact a client holds: _decrypt up to
\* the SELECT; the clock is read here.  The table as it is when the handler
\* starts is remembered, to compare its answer with
DecGate(s) ==
    /\ last = Idle
    /\ pending[s] = FreeSlot
    /\ \E body \in Held :
          LET early == GateResponse(body, now)
          IN  IF early # NoResponse
              THEN /\ last' = [op |-> "decrypt", at |-> now, req |-> body,
                               seen |-> vault, resp |-> early]
                   /\ pending' = pending
              ELSE /\ pending' = [pending EXCEPT ![s] =
                                     [pc |-> "lookup", req |-> body, seen |-> vault,
                                      at |-> now]]
                   /\ last' = last
    /\ UNCHANGED <<SECRET, vault, now, ticks, issued, kept>>

\* server.py:255-272  the SELECT, on the table as it is now, and the rest
DecLookup(s) ==
    /\ last = Idle
    /\ pending[s].pc = "lookup"
    /\ LET p == pending[s]
       IN  Return(s, [op |-> "decrypt", at |-> p.at, req |-> p.req, seen |-> p.seen,
                      resp |-> DecryptResponse(p.req, p.at, vault)])
    /\ UNCHANGED <<SECRET, vault, now, ticks, issued, kept>>

NextConc ==
    \/ HourPasses
    \/ \E s \in Slots : EncPrepare(s)
    \/ \E s \in Slots : EncInsert(s)
    \/ \E s \in Slots : EncRespond(s)
    \/ \E s \in Slots : DecGate(s)
    \/ \E s \in Slots : DecLookup(s)
    \/ Done

SpecConc == Init /\ [][NextConc]_vars

-----------------------------------------------------------------------------
(* The claims *)

IsDecrypt == last # Idle /\ last.op = "decrypt"
IsEncrypt == last # Idle /\ last.op = "encrypt"

\* the handler that ran last was sent the JSON object p
DecryptOfPayload(p) == IsDecrypt /\ last.req = [kind |-> "object", payload |-> p]

\* p is artifact a with field f, and nothing else, changed
AlteredIn(p, a, f) == p[f] # a[f] /\ \A g \in DOMAIN a \ {f} : p[g] = a[g]

Range(seq) == {seq[i] : i \in 1..Len(seq)}

\* C1: a decrypt returns plaintext only if the vault holds a row for the id
\* submitted, the clock has reached that row's unlock_at, and the key that
\* opened the ciphertext is that row's key, whatever the client submitted
C1_TimeLockSafety ==
    (IsDecrypt /\ last.resp.kind = "Plaintext") =>
        /\ last.req.kind = "object"
        /\ LET p == last.req.payload
               k == SqlText(p.id)
           IN  /\ k \in DOMAIN vault
               /\ last.at >= vault[k].unlock_at * TicksPerSec
               /\ b64decode(p.ct).bytes.aead = vault[k].aes_key

\* plaintext was returned for a payload no encrypt returned
C1_Witness ==
    /\ IsDecrypt /\ last.resp.kind = "Plaintext"
    /\ last.req.payload \notin Artifacts
    /\ \E k \in DOMAIN vault : now < vault[k].unlock_at * TicksPerSec

\* C2: the unmodified artifact of encrypt(P, D, name), decrypted at or after
\* its unlock_at, returns exactly P and exactly name
C2_RoundTrip ==
    \A b \in issued :
        (DecryptOfPayload(b.art) /\ last.at >= b.art.unlock_at.int * TicksPerSec) =>
            /\ last.resp.kind = "Plaintext"
            /\ last.resp.content = b.raw
            /\ last.resp.filename = b.filename

\* an unmodified artifact was decrypted at the very instant it unlocks
C2_Witness ==
    \E b \in issued :
        /\ DecryptOfPayload(b.art)
        /\ last.at = b.art.unlock_at.int * TicksPerSec
        /\ b.raw = P1

LockedFields ==
    {"kind", "status", "unlock_at", "unlock_iso", "remaining_seconds",
     "remaining_human", "message", "steps", "reads"}

\* C3: the unmodified artifact, decrypted strictly before its unlock_at, gets
\* Locked with unlock_at and the whole seconds of unlock_at - now; the response
\* has the countdown fields only and the handler never read the vault nor
\* entered the decryption; at now = unlock_at the response is not Locked
C3_TimeGate ==
    \A b \in issued :
        DecryptOfPayload(b.art) =>
            LET U == b.art.unlock_at.int
                r == last.resp
            IN  /\ last.at < U * TicksPerSec =>
                    /\ r.kind = "Locked"
                    /\ r.unlock_at = U
                    /\ r.remaining_seconds * TicksPerSec <= U * TicksPerSec - last.at
                    /\ U * TicksPerSec - last.at < (r.remaining_seconds + 1) * TicksPerSec
                    /\ DOMAIN r = LockedFields
                    /\ r.reads = 0
                    /\ "Decrypt" \notin Range(r.steps)
                /\ last.at = U * TicksPerSec => r.kind # "Locked"

\* an unmodified artifact was refused less than a second before it unlocks
C3_Witness ==
    \E b \in issued :
        /\ DecryptOfPayload(b.art)
        /\ last.resp.kind = "Locked"
        /\ last.at % TicksPerSec # 0
        /\ last.resp.remaining_seconds = 0

\* the four fields _decrypt requires are there
WellFormed(p) == Truthy(p.id) /\ Truthy(p.unlock_at) /\ Truthy(p.nonce) /\ Truthy(p.ct)

\* C4: an artifact of encrypt with only its id, or only its unlock_at, changed
\* to another value (one that leaves the field present) is answered
\* IntegrityFailure, at any time
C4_SignedMetadataTampering ==
    \A b \in issued :
        \A p \in {q \in Submitted : AlteredIn(q, b.art, "id") \/ AlteredIn(q, b.art, "unlock_at")} :
            (DecryptOfPayload(p) /\ WellFormed(p)) =>
                Outcome(last.resp) = "IntegrityFailure"

\* C5: an artifact of encrypt with only its ct, or only its nonce, changed
\* (to a value that leaves the field present) is never answered with plaintext
\* nor IntegrityFailure, and is answered DecryptionFailed once unlock_at has
\* passed and the row exists
C5_CiphertextTampering ==
    \A b \in issued :
        \A p \in {q \in Submitted : AlteredIn(q, b.art, "ct") \/ AlteredIn(q, b.art, "nonce")} :
            (DecryptOfPayload(p) /\ WellFormed(p)) =>
                /\ Outcome(last.resp) \notin {"Plaintext", "IntegrityFailure"}
                /\ (/\ last.at >= b.art.unlock_at.int * TicksPerSec
                    /\ SqlText(p.id) \in DOMAIN vault)
                        => Outcome(last.resp) = "DecryptionFailed"

\* C6: a well-formed artifact whose signature does not verify is answered
\* IntegrityFailure, and the vault is not read to answer it
C6_SignatureBeforeLookup ==
    (IsDecrypt /\ last.req.kind = "object"
         /\ WellFormed(last.req.payload)
         /\ last.req.payload.sig # SignWith(SECRET, last.req.payload)) =>
        /\ Outcome(last.resp) = "IntegrityFailure"
        /\ last.resp.reads = 0
        /\ "Lookup" \notin Range(last.resp.steps)

\* an artifact signed under another secret, for an id the vault does not
\* hold, with an unlock_at that has passed, was refused
C6_Witness ==
    /\ IsDecrypt /\ last.req.kind = "object"
    /\ LET p == last.req.payload
       IN  /\ WellFormed(p)
           /\ p.sig = SignWith(WrongSecret, p)
           /\ vault # << >>
           /\ SqlText(p.id) \notin DOMAIN vault
           /\ p.unlock_at.jt = "int"
           /\ last.at >= p.unlock_at.int * TicksPerSec
    /\ Outcome(last.resp) = "IntegrityFailure"

EncryptStep == last = Idle /\ last' # Idle /\ last'.op = "encrypt"
DecryptStep_ == last = Idle /\ last' # Idle /\ last'.op = "decrypt"

\* C7: an encrypt that returns an artifact adds exactly one row and changes
\* no other; an encrypt that returns an error leaves the vault as it was
C7_EncryptAtomicity ==
    [][EncryptStep =>
          IF last'.resp.kind = "Artifact"
          THEN /\ \E k \in DOMAIN vault' \ DOMAIN vault :
                      DOMAIN vault' = DOMAIN vault \cup {k}
               /\ \A j \in DOMAIN vault : vault'[j] = vault[j]
          ELSE vault' = vault /\ issued' = issued]_vars

\* C8: no decrypt changes the vault; an artifact that was answered with
\* plaintext is answered with the same plaintext when it is sent again
C8_DecryptReadOnlyIdempotent ==
    [][DecryptStep_ =>
          /\ vault' = vault
          /\ (kept # None /\ last'.req = kept.body) =>
                 /\ last'.resp.kind = "Plaintext"
                 /\ last'.resp.content = kept.content]_vars

\* the same artifact was decrypted a second time, with a row added since
C8_Witness ==
    /\ kept # None
    /\ IsDecrypt /\ last.req = kept.body
    /\ DOMAIN vault # kept.rows

\* C9: every row of the vault is there in the next state, with the same key
\* and the same unlock_at
C9_RecordsImmutable ==
    [][\A k \in DOMAIN vault :
          /\ k \in DOMAIN vault'
          /\ vault'[k].aes_key = vault[k].aes_key
          /\ vault'[k].unlock_at = vault[k].unlock_at]_vars

\* two rows are held and the key of one was just used to return plaintext
C9_Witness ==
    /\ Cardinality(DOMAIN vault) = 2
    /\ IsDecrypt /\ last.resp.kind = "Plaintext"

\* C10: an encrypt that draws an id the vault holds returns an error, no
\* artifact, and leaves every row as it was
C10_DuplicateIdFails ==
    [][(EncryptStep /\ "gen" \in DOMAIN last' /\ last'.gen.key_id \in DOMAIN vault) =>
          /\ last'.resp.kind = "Error"
          /\ vault' = vault
          /\ issued' = issued]_vars

\* an encrypt drew the id of a row held under another key and failed
C10_Witness ==
    /\ IsEncrypt /\ "gen" \in DOMAIN last
    /\ last.resp.kind = "Error" /\ last.resp.status = 500
    /\ last.resp.exc = "IntegrityError"
    /\ vault[last.gen.key_id].aes_key # last.gen.key

\* the fields the specification's Parse step requires
Required == {"id", "unlock_at", "nonce", "ct", "sig"}

\* C11: an artifact of encrypt with any one of id, unlock_at, nonce, ct or
\* sig missing is answered Malformed
C11_MissingFieldMalformed ==
    \A b \in issued : \A f \in Required :
        DecryptOfPayload([b.art EXCEPT ![f] = JAbsent]) =>
            Outcome(last.resp) = "Malformed"

\* the outcomes the specification gives a decrypt
Outcomes ==
    {"Malformed", "IntegrityFailure", "Locked", "KeyNotFound", "DecryptionFailed",
     "Plaintext"}

\* C12: every decrypt, whatever the body, ends in one of Malformed,
\* IntegrityFailure, Locked, KeyNotFound, DecryptionFailed or plaintext, and
\* enters no step twice
C12_DecryptOutcomes ==
    IsDecrypt =>
        /\ Outcome(last.resp) \in Outcomes
        /\ \A i, j \in 1..Len(last.resp.steps) :
               last.resp.steps[i] = last.resp.steps[j] => i = j

\* C13: the filename of a decrypt that returns plaintext is the original of
\* the row of the submitted id
C13_FilenameFromRecord ==
    (IsDecrypt /\ last.resp.kind = "Plaintext") =>
        last.resp.filename = vault[SqlText(last.req.payload.id)].original

\* C15: _encrypt resolves a duration token without regard to case to the
\* seconds of the table, and unlock_at is the clock plus those seconds; for a
\* token that is not in the table it answers 400 Unknown duration and the
\* vault gets no row
C15_DurationResolution ==
    IsEncrypt =>
        \A c \in DurationCases :
            c[1] = last.req.duration =>
                IF c[2] < 0
                THEN /\ last.resp.kind = "Error" /\ last.resp.status = 400
                     /\ last.resp.error = "Unknown duration"
                     /\ vault = << >> /\ issued = {}
                ELSE /\ last.resp.kind = "Artifact"
                     /\ last.resp.body.unlock_at = JInt(last.at \div TicksPerSec + c[2])
                     /\ \E k \in DOMAIN vault :
                            vault[k].unlock_at = last.at \div TicksPerSec + c[2]

\* "1YEAR" was resolved to 31536000 seconds, at a clock between two seconds
C15_Witness ==
    /\ IsEncrypt /\ last.req.duration = <<"1","Y","E","A","R">>
    /\ last.at % TicksPerSec # 0
    /\ last.resp.kind = "Artifact"
    /\ last.resp.body.unlock_at.int = last.at \div TicksPerSec + 31536000

\* the byte strings a response carries: the decoded nonce and ct of an
\* artifact, the content of a released file; the other responses carry
\* numbers and messages only
Carried(resp) ==
    CASE resp.kind = "Artifact"  -> {b64decode(resp.body.nonce).bytes,
                                     b64decode(resp.body.ct).bytes}
      [] resp.kind = "Plaintext" -> {resp.content}
      [] OTHER                   -> {}

\* what a client reads out of byte strings: the strings themselves, and what
\* is sealed in a ciphertext whose key is among them
Readable(bytes) ==
    bytes \cup {c.pt : c \in {x \in bytes : "aead" \in DOMAIN x /\ x.aead \in bytes}}

\* C16: no response of _encrypt or _decrypt lets the client read the aes_key
\* of a row of the vault
C16_KeyNeverLeaves ==
    last # Idle =>
        \A k \in DOMAIN vault : vault[k].aes_key \notin Readable(Carried(last.resp))

\* an artifact was returned whose ciphertext is sealed under a key of the vault
C16_Witness ==
    /\ IsEncrypt /\ last.resp.kind = "Artifact"
    /\ \E k \in DOMAIN vault :
           b64decode(last.resp.body.ct).bytes.aead = vault[k].aes_key

\* C18: a payload with the required fields, a signature that verifies and an
\* int unlock_at the clock has not reached is answered Locked without a read
\* of the vault, whether the vault holds its id or not; KeyNotFound is
\* answered only to a payload whose signature verifies, at or after unlock_at
C18_TimeGateBeforeLookup ==
    (IsDecrypt /\ last.req.kind = "object") =>
        LET p == last.req.payload
        IN  /\ (/\ WellFormed(p) /\ p.sig = sign(p) /\ p.unlock_at.jt = "int"
                /\ last.at < p.unlock_at.int * TicksPerSec) =>
                   /\ Outcome(last.resp) = "Locked"
                   /\ last.resp.reads = 0
                   /\ "Lookup" \notin Range(last.resp.steps)
            /\ Outcome(last.resp) = "KeyNotFound" =>
                   /\ p.sig = sign(p)
                   /\ last.at >= p.unlock_at.int * TicksPerSec

\* an artifact the server signed was refused as Locked while the vault held
\* no row for its id
C18_Witness ==
    /\ IsDecrypt /\ last.req.kind = "object"
    /\ last.req.payload \in Artifacts
    /\ SqlText(last.req.payload.id) \notin DOMAIN vault
    /\ last.resp.kind = "Locked"

\* the row of artifact a is in the vault, with a's unlock_at and original,
\* and a's signature is the one sign makes of a's id and unlock_at
Backed(a) ==
    /\ a.id.str \in DOMAIN vault
    /\ vault[a.id.str].unlock_at = a.unlock_at.int
    /\ vault[a.id.str].original = a.original.str
    /\ a.sig = JHex(SECRET \o a.id.str \o <<":">> \o FmtInt(a.unlock_at.int))

\* C19: when _encrypt returns an artifact, and ever after, the vault holds
\* the row of the artifact's id with the artifact's unlock_at and original,
\* the signature is sign's of that id and unlock_at, and unlock_at is the
\* whole seconds of the clock at the request plus the 3600 seconds of "1h"
C19_PersistBeforeReturn ==
    /\ \A b \in issued : Backed(b.art)
    /\ (IsEncrypt /\ last.resp.kind = "Artifact") =>
           /\ Backed(last.resp.body)
           /\ last.req.duration \in {<<"1","h">>, <<"1","H">>}
           /\ last.resp.body.unlock_at.int = last.at \div TicksPerSec + 3600

\* a second artifact was returned, at a clock between two seconds, while the
\* first is still backed by its row
C19_Witness ==
    /\ IsEncrypt /\ last.resp.kind = "Artifact"
    /\ last.at % TicksPerSec # 0
    /\ Cardinality(issued) = 2
    /\ Cardinality(DOMAIN vault) = 2

\* C20: an artifact of encrypt that was answered with plaintext is never
\* answered Locked, KeyNotFound or IntegrityFailure when it is sent again
C20_ReleaseMonotonic ==
    (kept # None /\ IsDecrypt /\ last.req = kept.body) =>
        Outcome(last.resp) \notin {"Locked", "KeyNotFound", "IntegrityFailure"}

\* a released artifact was sent again after the clock advanced, while
\* another row of the vault is still locked
C20_Witness ==
    /\ kept # None /\ IsDecrypt /\ last.req = kept.body
    /\ ticks > MaxTicks
    /\ \E k \in DOMAIN vault : now < vault[k].unlock_at * TicksPerSec

\* what _encrypt answers when it runs with no other request in flight, on
\* table tbl, at clock t, with the draws gen
EncryptAlone(req, t, gen, tbl) ==
    LET unlock_at == t \div TicksPerSec + 3600
    IN  IF gen.key_id \in DOMAIN tbl
        THEN Unhandled("IntegrityError", <<>>, 0)
        ELSE [kind |-> "Artifact", status |-> 200,
              body |-> MakePayload(gen.key_id, unlock_at, req.filename, gen.nonce,
                                   AESGCM_encrypt(gen.key, gen.nonce, req.raw)),
              x_unlock_at |-> FmtInt(unlock_at),
              x_unlock_iso |-> isoformat(unlock_at),
              x_duration |-> req.duration]

\* no step changes or removes a row
RowsKept == \A k \in DOMAIN vault : k \in DOMAIN vault' /\ vault'[k] = vault[k]

\* the request in `last` was answered as it is answered with no other request
\* in flight, at the clock value it read, on the table it arrived at; the one
\* difference is an encrypt whose id a request in flight with it inserted
\* first: it is refused, as it is when it runs after that request
AnsweredAsAlone ==
    /\ IsDecrypt =>
          /\ last.resp = DecryptResponse(last.req, last.at, last.seen)
          /\ last.req.payload \in Artifacts => Outcome(last.resp) # "KeyNotFound"
    /\ (IsEncrypt /\ last.req.raw = Empty) =>
          last.resp = JsonError(400, "No file data", <<>>)
    /\ (IsEncrypt /\ last.req.raw # Empty) =>
          /\ \/ last.resp = EncryptAlone(last.req, last.at, last.gen, last.seen)
             \/ /\ last.gen.key_id \in DOMAIN vault \ DOMAIN last.seen
                /\ last.resp = Unhandled("IntegrityError", <<>>, 0)
          /\ last.resp.kind = "Artifact" =>
                /\ Backed(last.resp.body)
                /\ vault[last.gen.key_id].aes_key = last.gen.key

\* C14: under every interleaving of the steps of up to MaxInflight handlers,
\* no step changes or removes a row of the vault, every artifact issued stays
\* backed by its row, a decrypt of an issued artifact is never answered
\* KeyNotFound, and every request is answered as it is answered alone at the
\* clock value it read
C14_ConcurrentIndependent ==
    [][/\ RowsKept
       /\ \A b \in issued' : Backed(b.art)'
       /\ AnsweredAsAlone']_vars

\* a decrypt returned plaintext although the table changed while it was in
\* flight: another encrypt inserted its row and has not answered yet
C14_Witness ==
    /\ IsDecrypt /\ last.resp.kind = "Plaintext"
    /\ last.seen # vault
    /\ \E s \in Slots : pending[s].pc = "respond"

====
